---- MODULE Spec2Model ----
(***************************************************************************)
(* AssemblyAITranscriptReader (assembly_ai_reader.py): construction of a   *)
(* reader, and load_data with its helpers _prepare_audio_file and          *)
(* _transcribe_with_assemblyai, as a state machine.                        *)
(*                                                                         *)
(* Strings that the code inspects (paths, URLs) are sequences of tokens:   *)
(* <<"./", "talk", ".MP4">> is "./talk.MP4".  startswith / endswith look   *)
(* at the first / last token, lower() maps a token to its lower case.      *)
(* An Optional value is a sequence of length 0 (None) or 1.                *)
(***************************************************************************)
EXTENDS Integers, Sequences, FiniteSets, TLC

VARIABLES env, settingsApiKey, adapter, call, disk, nextTmp

vars == <<env, settingsApiKey, adapter, call, disk, nextTmp>>

\* ---------------------------------------------------------------- bounds
NumAdapters == 2
NumCalls == 2
MaxTmp == 2

Adapters == 1..NumAdapters
Calls == 1..NumCalls

\* ------------------------------------------------------------- Optional
None == <<>>
Some(x) == <<x>>
\* Python truthiness of an Optional[str]: neither None nor "".
TruthyStr(o) == o # None /\ o[1] # ""
\* Python truthiness of an Optional[list]: neither None nor [].
TruthyList(o) == o # None /\ o[1] # <<>>

\* ------------------------------------------------------- string helpers
Lower(tok) ==
    CASE tok = ".MP4" -> ".mp4"
      [] tok = ".MP3" -> ".mp3"
      [] tok = ".Mov" -> ".mov"
      [] tok = ".WAV" -> ".wav"
      [] OTHER -> tok

StartsWith(s, prefixes) == Len(s) > 0 /\ s[1] \in prefixes
LowerEndsWith(s, suffixes) == Len(s) > 0 /\ Lower(s[Len(s)]) \in suffixes

URL_PREFIXES == {"http://", "https://"}
AUDIO_SUFFIXES == {".mp3", ".wav", ".flac", ".m4a", ".ogg"}
VIDEO_SUFFIXES == {".mp4", ".avi", ".mov", ".mkv", ".webm"}

\* pathlib collapses repeated slashes: str(Path("http://h")) = "http:/h".
Collapse(tok) ==
    CASE tok = "http://" -> "http:/"
      [] tok = "https://" -> "https:/"
      [] OTHER -> tok

\* pathlib drops leading "." components: str(Path("./a")) = "a".
RECURSIVE DropDot(_)
DropDot(s) == IF Len(s) > 0 /\ s[1] = "./" THEN DropDot(Tail(s)) ELSE s

\* str(Path(s))
PathNorm(s) == [i \in 1..Len(DropDot(s)) |-> Collapse(DropDot(s)[i])]

StrArg(s) == [kind |-> "str", val |-> s]
PathArg(s) == [kind |-> "Path", val |-> PathNorm(s)]
\* file = Path(file)
ToPath(f) == [kind |-> "Path", val |-> PathNorm(f.val)]
\* str(file)
StrOf(f) == f.val

\* Mutant: only the https scheme is taken for a URL.
IsUrlHttpsOnly(f) == f.kind = "str" /\ StartsWith(f.val, {"https://"})

\* isinstance(file, str) and file.startswith(('http://', 'https://'))
IsUrl(f) == f.kind = "str" /\ StartsWith(f.val, URL_PREFIXES)

\* file_path.lower().endswith(('.mp3', '.wav', '.flac', '.m4a', '.ogg'))
IsAudio(p) == LowerEndsWith(p, AUDIO_SUFFIXES)

\* Mutant: the extension is compared without lower().
IsVideoCaseSensitive(p) == Len(p) > 0 /\ p[Len(p)] \in VIDEO_SUFFIXES

\* file_path.lower().endswith(('.mp4', '.avi', '.mov', '.mkv', '.webm'))
IsVideo(p) == LowerEndsWith(p, VIDEO_SUFFIXES)

\* Mutant: whatever is not audio is decoded.
NeedsExtractionUnlessAudio(p) == ~IsAudio(p)

\* _prepare_audio_file's two tests in their order: audio returns first.
NeedsExtraction(p) == ~IsAudio(p) /\ IsVideo(p)

\* NamedTemporaryFile(suffix='.mp3', delete=False).name: a fresh name.
TempName(n) == <<"/tmp/tmp", ToString(n), ".mp3">>

\* ------------------------------------------------------------- options
\* getattr(aai.SpeechModel, speech_model.value)
ProviderSpeechModel(m) == IF m = "nano" THEN "aai.SpeechModel.nano" ELSE "aai.SpeechModel.best"

\* The constructor's keyword defaults.
DefaultOptions ==
    [api_key |-> None, speech_model |-> "best", language_detection |-> TRUE,
     language |-> None, punctuate |-> TRUE, format_text |-> TRUE,
     disfluencies |-> FALSE, filter_profanity |-> FALSE, word_boost |-> None,
     custom_spelling |-> None, output_format |-> "text",
     chars_per_caption |-> 128, speech_threshold |-> None,
     speaker_labels |-> FALSE, multichannel |-> TRUE]

ApiKeys == {Some("k1"), Some("k2")}
Languages == {None, Some(""), Some("en")}
OutputFormats == {"text", "srt", "vtt"}
CaptionWidths == {128, 256}
WordBoosts == {None, Some(<<>>), Some(<<"llama">>)}
CustomSpellings == {None, Some(<<[from |-> "ai", to |-> "AI"]>>)}

\* Every combination of the language options and the rendering options,
\* every combination of the two optional lists, and every credential argument.
AllOptions ==
    {[DefaultOptions EXCEPT !.api_key = Some("k1"), !.language_detection = ld,
                            !.language = lg, !.output_format = f,
                            !.chars_per_caption = w] :
        ld \in BOOLEAN, lg \in Languages, f \in OutputFormats, w \in CaptionWidths}
    \cup {[DefaultOptions EXCEPT !.api_key = Some("k1"), !.word_boost = wb,
                                 !.custom_spelling = cs] :
        wb \in WordBoosts, cs \in CustomSpellings}
    \cup {[DefaultOptions EXCEPT !.api_key = k] : k \in {None, Some("")} \cup ApiKeys}

\* Readers that differ in their credential only.
KeyOptions == {[DefaultOptions EXCEPT !.api_key = k] : k \in ApiKeys}

NoAdapter == [state |-> "none"]

\* api_key or os.environ.get("ASSEMBLYAI_API_KEY")
ResolveApiKey(o, e) == IF TruthyStr(o.api_key) THEN o.api_key ELSE e

NewAdapter(o, e) ==
    [state |-> "ok",
     api_key |-> ResolveApiKey(o, e),
     speech_model |-> ProviderSpeechModel(o.speech_model),
     language_detection |-> o.language_detection,
     language |-> o.language,
     punctuate |-> o.punctuate,
     format_text |-> o.format_text,
     disfluencies |-> o.disfluencies,
     filter_profanity |-> o.filter_profanity,
     word_boost |-> o.word_boost,
     custom_spelling |-> o.custom_spelling,
     output_format |-> o.output_format,
     chars_per_caption |-> o.chars_per_caption,
     speech_threshold |-> o.speech_threshold,
     speaker_labels |-> o.speaker_labels,
     multichannel |-> o.multichannel]

\* __init__: raises ValueError when no key resolves, else publishes the key
\* in the client library's module-level settings and stores the options.
init_reader(a, o) ==
    /\ adapter[a].state = "none"
    /\ IF TruthyStr(ResolveApiKey(o, env))
       THEN /\ adapter' = [adapter EXCEPT ![a] = NewAdapter(o, env)]
            /\ settingsApiKey' = ResolveApiKey(o, env)
       ELSE /\ adapter' = [adapter EXCEPT ![a] = [state |-> "ValueError"]]
            /\ UNCHANGED settingsApiKey
    /\ UNCHANGED <<env, call, disk, nextTmp>>

\* ------------------------------------------------------ request payload
\* config_params of _transcribe_with_assemblyai: the keys always present,
\* then the three optional ones.
BaseParams(r) ==
    [speech_model |-> r.speech_model,
     language_detection |-> r.language_detection,
     punctuate |-> r.punctuate,
     format_text |-> r.format_text,
     disfluencies |-> r.disfluencies,
     filter_profanity |-> r.filter_profanity,
     speech_threshold |-> r.speech_threshold,
     speaker_labels |-> r.speaker_labels,
     multichannel |-> r.multichannel]

WithWordBoost(r, p) ==
    IF TruthyList(r.word_boost) THEN ("word_boost" :> r.word_boost[1]) @@ p ELSE p

WithCustomSpelling(r, p) ==
    IF TruthyList(r.custom_spelling)
    THEN ("custom_spelling" :> r.custom_spelling[1]) @@ p ELSE p

\* Mutant: the language is sent whenever it is given.
WithLanguageAlways(r, p) ==
    IF TruthyStr(r.language) THEN ("language" :> r.language[1]) @@ p ELSE p

WithLanguage(r, p) ==
    IF TruthyStr(r.language) /\ ~r.language_detection
    THEN ("language" :> r.language[1]) @@ p ELSE p

config_params(r) ==
    WithLanguage(r, WithCustomSpelling(r, WithWordBoost(r, BaseParams(r))))

\* ------------------------------------------------------ remote service
\* What transcriber.transcribe returns: a transcript with a status, a text
\* (possibly absent) and an error message, or it raises.
Texts == {None, Some(""), Some("hello")}
Responses ==
    {[kind |-> "transcript", status |-> "completed", text |-> t, error |-> None] :
        t \in Texts}
    \cup {[kind |-> "transcript", status |-> "error", text |-> None,
           error |-> Some("bad audio")]}
    \cup {[kind |-> "raise", status |-> "none", text |-> None, error |-> None]}

ConcurrentResponses == {resp \in Responses : resp.text \in {None, Some("hello")}}

\* Mutant: the status is not looked at.
IsErrorStatusIgnored(resp) == FALSE

\* transcript.status == aai.TranscriptStatus.error
IsErrorStatus(resp) == resp.status = "error"

\* The subtitle renderers of the transcript are opaque: their output is
\* known by the transcript and the caption width they were given.
ExportSubtitles(fmt, resp, width) == [fmt |-> fmt, of |-> resp.text, width |-> width]
PlainText(s) == [fmt |-> "text", body |-> s]

\* Mutant: the subtitle renderers are called with the default width.
RenderDefaultWidth(r, resp) ==
    IF r.output_format = "srt"
    THEN [out |-> ExportSubtitles("srt", resp, DefaultOptions.chars_per_caption),
          calls |-> <<<<"srt", DefaultOptions.chars_per_caption>>>>]
    ELSE IF r.output_format = "vtt"
    THEN [out |-> ExportSubtitles("vtt", resp, DefaultOptions.chars_per_caption),
          calls |-> <<<<"vtt", DefaultOptions.chars_per_caption>>>>]
    ELSE [out |-> PlainText(IF TruthyStr(resp.text) THEN resp.text[1] ELSE ""),
          calls |-> <<>>]

\* The return value of _transcribe_with_assemblyai on success (out), with
\* the renderer calls made for it (calls: <<format, chars_per_caption>>).
Render(r, resp) ==
    IF r.output_format = "srt"
    THEN [out |-> ExportSubtitles("srt", resp, r.chars_per_caption),
          calls |-> <<<<"srt", r.chars_per_caption>>>>]
    ELSE IF r.output_format = "vtt"
    THEN [out |-> ExportSubtitles("vtt", resp, r.chars_per_caption),
          calls |-> <<<<"vtt", r.chars_per_caption>>>>]
    ELSE [out |-> PlainText(IF TruthyStr(resp.text) THEN resp.text[1] ELSE ""),
          calls |-> <<>>]


\* ------------------------------------------------------------ load_data
IdleCall ==
    [pc |-> "idle", adapter |-> 0, input |-> StrArg(<<>>), is_url |-> FALSE,
     file |-> StrArg(<<>>), file_path |-> <<>>, tmp |-> None,
     extraction |-> "none", extracts |-> 0,
     request |-> None, response |-> None, renders |-> <<>>, removes |-> <<>>, transcript |-> None,
     documents |-> None, error |-> None, log |-> <<>>]

Err(type, msg) == Some([type |-> type, msg |-> msg])

\* except Exception as e: logger.error(...); raise
Raised(cr, type, msg) ==
    [cr EXCEPT !.pc = "failed", !.error = Err(type, msg), !.log = @ \o <<"error">>]

\* if isinstance(file, str): file = Path(file)
LocalFile(f) == IF f.kind = "str" THEN ToPath(f) ELSE f

\* load_data up to the point where the media is decoded or sent: the URL
\* test, the Path conversion and _prepare_audio_file's extension tests,
\* pydub's import and the creation of the temporary mp3.
load_data_prepare(c, a, f, pydub) ==
    /\ call[c].pc \in {"idle", "done", "failed"}
    /\ adapter[a].state = "ok"
    /\ LET cr0 == [IdleCall EXCEPT !.adapter = a, !.input = f] IN
       IF IsUrl(f)
       THEN /\ call' = [call EXCEPT ![c] =
                 [cr0 EXCEPT !.pc = "transcribe", !.is_url = TRUE, !.file = f,
                             !.file_path = f.val]]
            /\ UNCHANGED <<disk, nextTmp>>
       ELSE LET file == LocalFile(f)
                cr1 == [cr0 EXCEPT !.file = file]
            IN  IF ~NeedsExtraction(StrOf(file))
                THEN /\ call' = [call EXCEPT ![c] =
                          [cr1 EXCEPT !.pc = "transcribe", !.file_path = StrOf(file)]]
                     /\ UNCHANGED <<disk, nextTmp>>
                ELSE IF ~pydub
                THEN /\ call' = [call EXCEPT ![c] =
                          Raised([cr1 EXCEPT !.extraction = "missing"],
                                 "ImportError", <<"Please install pydub">>)]
                     /\ UNCHANGED <<disk, nextTmp>>
                ELSE /\ nextTmp <= MaxTmp
                     /\ call' = [call EXCEPT ![c] =
                          [cr1 EXCEPT !.pc = "extract", !.extraction = "started",
                                      !.tmp = Some(TempName(nextTmp))]]
                     /\ disk' = disk \cup {TempName(nextTmp)}
                     /\ nextTmp' = nextTmp + 1
    /\ UNCHANGED <<env, settingsApiKey, adapter>>

\* AudioSegment.from_file ... audio.export succeeded: return temp_audio_path
ExtractSucceeded(cr) ==
    [cr EXCEPT !.pc = "transcribe", !.extracts = @ + 1, !.file_path = cr.tmp[1]]

\* Mutant: the decoder's failure is swallowed and the input is sent as it is.
ExtractFailedFallback(cr) ==
    [cr EXCEPT !.pc = "transcribe", !.extracts = @ + 1, !.file_path = StrOf(cr.file),
               !.log = @ \o <<"error">>]

\* The decoder raised: logged and re-raised by _prepare_audio_file, then
\* logged and re-raised by load_data.
ExtractFailed(cr) ==
    Raised([cr EXCEPT !.extracts = @ + 1, !.log = @ \o <<"error">>],
           "DecoderError", <<"cannot decode">>)

\* The decoding step of _prepare_audio_file (AudioSegment.from_file on the
\* path, or on the handle that fs.open gives, then split_to_mono and export).
prepare_audio_file_extract(c, ok) ==
    /\ call[c].pc = "extract"
    /\ LET cr == [call[c] EXCEPT !.extraction = IF ok THEN "ok" ELSE "corrupt"] IN
       call' = [call EXCEPT ![c] =
          IF ok THEN ExtractSucceeded(cr) ELSE ExtractFailed(cr)]
    /\ UNCHANGED <<env, settingsApiKey, adapter, disk, nextTmp>>

\* TranscriptionConfig(**config_params); Transcriber(config=config), which
\* takes its credential from the library's settings; transcribe(file_path).
transcribe_submit(c) ==
    /\ call[c].pc = "transcribe"
    /\ call' = [call EXCEPT ![c] =
          [@ EXCEPT !.pc = "waiting",
                    !.request = Some([key |-> settingsApiKey,
                                      media |-> call[c].file_path,
                                      config |-> config_params(adapter[call[c].adapter])])]]
    /\ UNCHANGED <<env, settingsApiKey, adapter, disk, nextTmp>>

\* raise Exception(f"Transcription failed: {transcript.error}")
TranscriptionFailed(cr, resp) ==
    Raised([cr EXCEPT !.log = @ \o <<"error">>], "Exception",
           <<"Transcription failed: ", resp.error[1]>>)

\* transcribe returned (or raised): the status check and the rendering.
transcribe_result(c, resp) ==
    /\ call[c].pc = "waiting"
    /\ LET cr == [call[c] EXCEPT !.response = Some(resp)]
           rendered == Render(adapter[cr.adapter], resp)
       IN call' = [call EXCEPT ![c] =
             IF resp.kind = "raise"
             THEN Raised(cr, "ClientError", <<"request failed">>)
             ELSE IF IsErrorStatus(resp)
             THEN TranscriptionFailed(cr, resp)
             ELSE [cr EXCEPT !.pc = "cleanup", !.renders = rendered.calls,
                             !.transcript = Some(rendered.out)]]
    /\ UNCHANGED <<env, settingsApiKey, adapter, disk, nextTmp>>

\* Mutant: the prepared path is compared with the argument as it was given.
NeedsCleanupRawInput(cr) == ~cr.is_url /\ cr.file_path # cr.input.val

\* if not is_url and file_path != str(file)
NeedsCleanup(cr) == ~cr.is_url /\ cr.file_path # StrOf(cr.file)

\* The cleanup of the temporary file (os.remove may raise: a warning), then
\* the document built from the transcript (FlatReader over a scratch file).
load_data_finish(c, removeOk, docOk) ==
    /\ call[c].pc = "cleanup"
    /\ LET cr == call[c]
           rm == NeedsCleanup(cr)
           gone == rm /\ removeOk /\ cr.file_path \in disk
           cr1 == IF rm
                  THEN [cr EXCEPT !.removes = @ \o <<cr.file_path>>,
                                  !.log = IF gone THEN @ ELSE @ \o <<"warning">>]
                  ELSE cr
       IN /\ disk' = IF gone THEN disk \ {cr.file_path} ELSE disk
          /\ call' = [call EXCEPT ![c] =
                IF docOk
                THEN [cr1 EXCEPT !.pc = "done",
                                 !.documents = Some(<<[text |-> cr.transcript[1]]>>)]
                ELSE Raised(cr1, "OSError", <<"cannot write">>)]
    /\ UNCHANGED <<env, settingsApiKey, adapter, nextTmp>>

\* --------------------------------------------------------------- inputs
Stem == "talk"
LocalNames ==
    {<<Stem, e>> : e \in AUDIO_SUFFIXES \cup VIDEO_SUFFIXES \cup {".txt", ".MP4", ".WAV"}}
    \cup {<<"./", Stem, e>> : e \in {".mp3", ".Mov", ".txt"}}
UrlNames == {<<p, "host/clip", e>> : p \in URL_PREFIXES, e \in {".mp3", ".mp4"}}

Inputs ==
    {StrArg(n) : n \in LocalNames \cup UrlNames}
    \cup {PathArg(n) : n \in {<<Stem, ".ogg">>, <<Stem, ".mkv">>, <<Stem, ".txt">>}}

ConcurrentInputs ==
    {StrArg(<<Stem, ".mp3">>), StrArg(<<Stem, ".mp4">>),
     StrArg(<<"https://", "host/clip", ".mp3">>)}

\* The caller's media on local storage.
UserFiles == {PathNorm(n) : n \in LocalNames}

Init ==
    /\ env \in {None, Some("kenv")}
    /\ settingsApiKey = None
    /\ adapter = [a \in Adapters |-> NoAdapter]
    /\ call = [c \in Calls |-> IdleCall]
    /\ disk = UserFiles
    /\ nextTmp = 1

\* One reader, constructed with any options, called again and again.
Next ==
    \/ \E o \in AllOptions : init_reader(1, o)
    \/ \E f \in Inputs, pydub \in BOOLEAN : load_data_prepare(1, 1, f, pydub)
    \/ \E ok \in BOOLEAN : prepare_audio_file_extract(1, ok)
    \/ transcribe_submit(1)
    \/ \E resp \in Responses : transcribe_result(1, resp)
    \/ \E removeOk \in BOOLEAN, docOk \in BOOLEAN : load_data_finish(1, removeOk, docOk)

Spec == Init /\ [][Next]_vars

\* Several readers with different credentials, calls running concurrently.
NextConcurrent ==
    \/ \E a \in Adapters, o \in KeyOptions : init_reader(a, o)
    \/ \E c \in Calls, a \in Adapters, f \in ConcurrentInputs, pydub \in BOOLEAN :
          load_data_prepare(c, a, f, pydub)
    \/ \E c \in Calls, ok \in BOOLEAN : prepare_audio_file_extract(c, ok)
    \/ \E c \in Calls : transcribe_submit(c)
    \/ \E c \in Calls, resp \in ConcurrentResponses : transcribe_result(c, resp)
    \/ \E c \in Calls, removeOk \in BOOLEAN : load_data_finish(c, removeOk, TRUE)

SpecConcurrent == Init /\ [][NextConcurrent]_vars

\* =============================================================== claims
\* The vocabulary of the claims, stated apart from the code's own tests.
ClaimAudioExts == {".mp3", ".wav", ".flac", ".m4a", ".ogg"}
ClaimVideoExts == {".mp4", ".avi", ".mov", ".mkv", ".webm"}
LowerExt(f) == Lower(f.val[Len(f.val)])
GivenAsUrl(f) == f.kind = "str" /\ f.val[1] \in {"http://", "https://"}
LocalVideo(f) == ~GivenAsUrl(f) /\ LowerExt(f) \in ClaimVideoExts
LocalNonVideo(f) == ~GivenAsUrl(f) /\ LowerExt(f) \notin ClaimVideoExts
Started(c) == call[c].pc # "idle"
Ended(c) == call[c].pc \in {"done", "failed"}
ReaderOf(c) == adapter[call[c].adapter]

\* C1: once a call that created a temporary extraction file has ended, by a
\* document or by an error, that file is no longer on disk.
C1_TempFileGoneAfterCall ==
    \A c \in Calls :
        (Ended(c) /\ call[c].tmp # None) => call[c].tmp[1] \notin disk

C3_RemoteErrorAborts ==
    \A c \in Calls :
        (call[c].response # None /\ call[c].response[1].status = "error") =>
            /\ call[c].pc = "failed"
            /\ call[c].documents = None
            /\ call[c].transcript = None
            /\ call[c].renders = <<>>
            /\ call[c].error # None
            /\ call[c].error[1].type = "Exception"
            /\ \E i \in DOMAIN call[c].error[1].msg :
                   call[c].error[1].msg[i] = call[c].response[1].error[1]

C3_Witness ==
    \E c \in Calls :
        /\ call[c].response # None
        /\ call[c].response[1].status = "error"
        /\ ReaderOf(c).output_format = "srt"
        /\ call[c].pc = "failed"

\* C4: when audio extraction fails (decoder missing or media corrupt), the
\* call has failed with the extraction's error and no request was submitted,
\* nothing was rendered and no document was built.
C4_ExtractionFailureBeforeNetwork ==
    \A c \in Calls :
        call[c].extraction \in {"missing", "corrupt"} =>
            /\ call[c].pc = "failed"
            /\ call[c].request = None
            /\ call[c].response = None
            /\ call[c].transcript = None
            /\ call[c].renders = <<>>
            /\ call[c].documents = None
            /\ call[c].error # None
            /\ call[c].error[1].type \in {"ImportError", "DecoderError"}

C4_Witness ==
    \E c \in Calls :
        /\ call[c].extraction = "corrupt"
        /\ call[c].pc = "failed"
        /\ call[c].request = None

\* C5: for a local path with a video extension (any case), extraction is
\* attempted, the decoder is invoked exactly once, and when it succeeds the
\* prepared path is the new temporary mp3, differs from the input path, and
\* is the path the remote call gets.
C5_VideoExtractedOnce ==
    \A c \in Calls :
        (Started(c) /\ LocalVideo(call[c].input)) =>
            /\ call[c].extraction # "none"
            /\ call[c].extracts = IF call[c].extraction \in {"ok", "corrupt"} THEN 1 ELSE 0
            /\ call[c].extraction = "ok" =>
                  /\ call[c].tmp # None
                  /\ call[c].file_path = call[c].tmp[1]
                  /\ call[c].file_path # call[c].input.val
                  /\ call[c].file_path # StrOf(call[c].file)
                  /\ call[c].request # None =>
                         call[c].request[1].media = call[c].file_path

C5_Witness ==
    \E c \in Calls :
        /\ call[c].input = StrArg(<<Stem, ".MP4">>)
        /\ call[c].extraction = "ok"
        /\ call[c].extracts = 1
        /\ call[c].request # None
        /\ call[c].pc = "done"

\* C6: for a local path with an audio extension, or with an extension that
\* is not a video extension, the prepared path is the input path, nothing
\* is decoded and no temporary file is created.
C6_NonVideoPassesThrough ==
    \A c \in Calls :
        (Started(c) /\ LocalNonVideo(call[c].input)) =>
            /\ call[c].file_path = StrOf(call[c].file)
            /\ call[c].file_path = PathNorm(call[c].input.val)
            /\ call[c].extraction = "none"
            /\ call[c].extracts = 0
            /\ call[c].tmp = None

C6_Witness ==
    \E c \in Calls :
        /\ call[c].input = StrArg(<<Stem, ".txt">>)
        /\ call[c].pc = "done"
        /\ call[c].request[1].media = <<Stem, ".txt">>

\* C7: for a URL there is no local-file handling at any point of the call:
\* no Path conversion, no extraction, no temporary file created or removed,
\* and the remote call gets exactly the URL that was passed in.
C7_UrlSkipsLocalHandling ==
    \A c \in Calls :
        (Started(c) /\ GivenAsUrl(call[c].input)) =>
            /\ call[c].file = call[c].input
            /\ call[c].file_path = call[c].input.val
            /\ call[c].extraction = "none"
            /\ call[c].extracts = 0
            /\ call[c].tmp = None
            /\ call[c].removes = <<>>
            /\ call[c].request # None =>
                   call[c].request[1].media = call[c].input.val

C7_Witness ==
    \E c \in Calls :
        /\ call[c].input = StrArg(<<"http://", "host/clip", ".mp4">>)
        /\ call[c].pc = "done"
        /\ call[c].request[1].media = <<"http://", "host/clip", ".mp4">>

\* C8: on remote success the output follows the requested format: text
\* gives the transcript's text, or "" when there is none, and calls no
\* renderer; srt (vtt) gives the SRT (VTT) renderer's output for the
\* configured chars_per_caption, and that one renderer call only.
C8_RenderingByFormat ==
    \A c \in Calls :
        (call[c].response # None /\ call[c].response[1].status = "completed") =>
            LET r == ReaderOf(c)
                resp == call[c].response[1]
            IN /\ call[c].transcript # None
               /\ r.output_format = "text" =>
                     /\ call[c].transcript[1] =
                            PlainText(IF resp.text \in {None, Some("")}
                                      THEN "" ELSE resp.text[1])
                     /\ call[c].renders = <<>>
               /\ r.output_format \in {"srt", "vtt"} =>
                     /\ call[c].transcript[1] =
                            ExportSubtitles(r.output_format, resp, r.chars_per_caption)
                     /\ call[c].renders =
                            <<<<r.output_format, r.chars_per_caption>>>>

C8_Witness ==
    \E c \in Calls :
        /\ call[c].response # None
        /\ call[c].response[1].status = "completed"
        /\ ReaderOf(c).output_format = "srt"
        /\ ReaderOf(c).chars_per_caption = 256
        /\ call[c].renders = <<<<"srt", 256>>>>
        /\ call[c].pc = "done"

\* C9: concurrent calls share no mutable state: the request of a call is
\* made with the credential and the configuration of the reader it was
\* called on, whatever other readers were constructed meanwhile, and two
\* calls never have the same temporary file.
C9_NoSharedState ==
    /\ \A c \in Calls :
           call[c].request # None =>
               /\ call[c].request[1].key = ReaderOf(c).api_key
               /\ call[c].request[1].config = config_params(ReaderOf(c))
    /\ \A c1, c2 \in Calls :
           (c1 # c2 /\ call[c1].tmp # None /\ call[c2].tmp # None) =>
               call[c1].tmp # call[c2].tmp

\* C10: load_data removes nothing but the temporary mp3 that the same call
\* created: for URLs and for local inputs that are not video nothing is
\* removed, and the caller's media stay on disk.
C10_OnlyOwnTempRemoved ==
    /\ UserFiles \subseteq disk
    /\ \A c \in Calls :
           /\ \A i \in DOMAIN call[c].removes :
                  call[c].tmp # None /\ call[c].removes[i] = call[c].tmp[1]
           /\ (Started(c) /\ ~LocalVideo(call[c].input)) => call[c].removes = <<>>

C10_Witness ==
    \E c \in Calls :
        /\ call[c].input = StrArg(<<"./", Stem, ".Mov">>)
        /\ call[c].pc = "done"
        /\ call[c].removes = <<call[c].tmp[1]>>
        /\ call[c].tmp[1] \notin disk

====
